---- MODULE Spec2Model ----
(***************************************************************************)
(* Model of the three programs of the repository:                          *)
(*   - the RBAC token server      (src/role-based-access-control.js)       *)
(*   - the single-user token server (src/unnamed/part_001)                 *)
(*   - the React login form       (src/unnamed/part_000)                   *)
(* The two servers share one specification (Spec), the variable `variant`  *)
(* says which of the two files is running.  The form has its own           *)
(* specification (FormSpec).                                               *)
(*                                                                         *)
(* Time is counted in hours, the unit of both JWT_EXPIRES_IN defaults.     *)
(* A header is a sequence of chunks; the chunk SP is one space character,  *)
(* every other chunk is a run of non-space characters; the chunk TOK       *)
(* stands for the characters of the token carried in req.token.            *)
(* A signature is the pair (signed content, key): an ideal MAC.            *)
(***************************************************************************)
EXTENDS Integers, Sequences, FiniteSets, TLC

VARIABLES variant, now, issued, req, res, ran, loginFailures,
          formData, error, pendingFormData, pendingError, alerts, typed,
          lastEvent

serverVars == <<variant, now, issued, req, res, ran, loginFailures>>
formVars == <<formData, error, pendingFormData, pendingError, alerts, typed,
              lastEvent>>
vars == <<variant, now, issued, req, res, ran, loginFailures,
          formData, error, pendingFormData, pendingError, alerts, typed,
          lastEvent>>

(* ------------------------------ bounds --------------------------------- *)
MaxTime == 2
MaxIssued == 2
MaxHeaderLen == 4
MaxPending == 2
MaxAlerts == 2

(* ----------------------------- constants ------------------------------- *)
JWT_SECRET == "please_change_this_secret_in_prod"
OtherSecret == "some_other_secret"

JWT_EXPIRES_IN(v) == IF v = "rbac" THEN "2h" ELSE "1h"

\* the conversion jsonwebtoken applies to the expiresIn string, in hours
Timespan(s) == IF s = "2h" THEN 2 ELSE 1

DEMO_USERS ==
  << [username |-> "admin1", password |-> "adminpass", role |-> "admin",
      name |-> "Admin One"],
     [username |-> "mod1", password |-> "modpass", role |-> "moderator",
      name |-> "Moderator One"],
     [username |-> "alice", password |-> "alicepw", role |-> "user",
      name |-> "Alice"] >>

DEMO_USER ==
  [username |-> "demo", password |-> "secret123", name |-> "Demo User",
   email |-> "demo@example.com"]

(* ------------------------- values and messages ------------------------- *)
Undefined == "<undefined>"
NoToken == [kind |-> "none"]
\* a request without an Authorization header
NoHeader == [present |-> FALSE, value |-> <<>>]
HeaderOf(chunks) == [present |-> TRUE, value |-> chunks]
NoUser == [kind |-> "none"]

SP == " "
TOK == "<token>"

\* JavaScript's !v for the values a body field takes here
Falsy(v) == v \in {Undefined, ""}

MsgMissingHeader == "Missing Authorization header"
MsgMalformedHeader ==
  "Malformed Authorization header. Expected 'Bearer <token>'"
MsgInvalidToken == "Invalid or expired token"
MsgNoRole == "Access denied (no role present)"
MsgInsufficientRole == "Access denied (insufficient role)"
MsgNotAllowed == "Not allowed to perform moderation actions"
MsgInvalidLogin == "Invalid username or password"
MsgNotFound == "Not found"
MsgRequired(v) == IF v = "rbac" THEN "username and password required in body"
                  ELSE "username and password required"

\* a response; the fields a response does not carry hold their empty value
Response(status, err, details, token, expiresIn, message, user) ==
  [status |-> status, error |-> err, details |-> details, token |-> token,
   expiresIn |-> expiresIn, message |-> message, user |-> user]

Ok(message, user) == Response(200, "", "", NoToken, "", message, user)
Fail(status, err) == Response(status, err, "", NoToken, "", "", NoUser)
\* no response sent: the middleware called next()
Next0 == Response(0, "", "", NoToken, "", "", NoUser)

(* ------------------------------ tokens --------------------------------- *)
Sign(body, key) == [content |-> body, key |-> key]

\* jwt.sign(payload, secret, {expiresIn}): adds iat and exp, then signs
JwtSign(payload, secret, expiresIn, t) ==
  LET body == payload @@ [iat |-> t, exp |-> t + Timespan(expiresIn)]
  IN  [body |-> body, sig |-> Sign(body, secret)]

signToken(v, payload, t) == JwtSign(payload, JWT_SECRET, JWT_EXPIRES_IN(v), t)

\* a variant that does not look at the expiry
JwtVerifyError_NoExpiry(part, token, secret, t) ==
  IF part = <<>> THEN "jwt must be provided"
  ELSE IF part # <<TOK>> \/ token = NoToken THEN "jwt malformed"
  ELSE IF token.sig # Sign(token.body, secret) THEN "invalid signature"
  ELSE ""

\* a variant that expires a token one hour early
JwtVerifyError_EarlyExpiry(part, token, secret, t) ==
  IF part = <<>> THEN "jwt must be provided"
  ELSE IF part # <<TOK>> \/ token = NoToken THEN "jwt malformed"
  ELSE IF token.sig # Sign(token.body, secret) THEN "invalid signature"
  ELSE IF t + 1 >= token.body.exp THEN "jwt expired"
  ELSE ""

\* jwt.verify(token, secret, cb): err.message, or "" when the token verifies
JwtVerifyError(part, token, secret, t) ==
  IF part = <<>> THEN "jwt must be provided"
  ELSE IF part # <<TOK>> \/ token = NoToken THEN "jwt malformed"
  ELSE IF token.sig # Sign(token.body, secret) THEN "invalid signature"
  ELSE IF t >= token.body.exp THEN "jwt expired"
  ELSE ""

(* --------------------------- String.split(" ") ------------------------- *)
RECURSIVE SplitFrom(_, _, _)
SplitFrom(h, i, cur) ==
  IF i > Len(h) THEN <<cur>>
  ELSE IF h[i] = SP THEN <<cur>> \o SplitFrom(h, i + 1, <<>>)
  ELSE SplitFrom(h, i + 1, Append(cur, h[i]))

Split(h) == SplitFrom(h, 1, <<>>)

(* ------------------------- middleware: verifyJwt ------------------------ *)
\* req.get("Authorization") || ""
AuthHeader(header) == IF header.present THEN header.value ELSE <<>>

\* a variant that accepts any scheme word
Malformed_AnyScheme(parts) == Len(parts) # 2

\* parts.length !== 2 || parts[0] !== "Bearer"
Malformed(parts) == Len(parts) # 2 \/ parts[1] # <<"Bearer">>

\* result of the middleware: the response it sends (Next0: none, next() was
\* called), the payload it attaches to req.user, the stages it ran
verifyJwt(header, token, t) ==
  LET authHeader == AuthHeader(header)
      parts == Split(authHeader)
  IN  IF authHeader = <<>>
      THEN [res |-> Fail(401, MsgMissingHeader), user |-> NoUser,
            ran |-> {"verifyJwt"}]
      ELSE IF Malformed(parts)
      THEN [res |-> Fail(401, MsgMalformedHeader), user |-> NoUser,
            ran |-> {"verifyJwt"}]
      ELSE LET err == JwtVerifyError(parts[2], token, JWT_SECRET, t)
           IN  IF err # ""
               THEN [res |-> Response(401, MsgInvalidToken, err, NoToken, "",
                                      "", NoUser),
                     user |-> NoUser, ran |-> {"verifyJwt", "jwt.verify"}]
               ELSE [res |-> Next0, user |-> token.body,
                     ran |-> {"verifyJwt", "jwt.verify"}]

(* ----------------------- middleware: authorizeRoles --------------------- *)
\* Array.prototype.includes
Includes(arr, x) == \E i \in 1..Len(arr) : arr[i] = x

\* !req.user || !req.user.role
NoRolePresent(user) ==
  \/ user = NoUser
  \/ "role" \notin DOMAIN user
  \/ Falsy(user.role)

\* a variant that only asks for some role
authorizeRoles_AnyRole(allowedRoles, user) ==
  IF NoRolePresent(user) THEN Fail(403, MsgNoRole) ELSE Next0

\* the response the role gate sends, Next0 when it calls next()
authorizeRoles(allowedRoles, user) ==
  IF NoRolePresent(user) THEN Fail(403, MsgNoRole)
  ELSE IF ~Includes(allowedRoles, user.role)
  THEN Fail(403, MsgInsufficientRole)
  ELSE Next0

(* ------------------------------ POST /login ----------------------------- *)
\* DEMO_USERS.find(u => u.username === username && u.password === password):
\* the index of the first match, 0 when there is none
RECURSIVE FindFrom(_, _, _, _)
FindFrom(users, i, username, password) ==
  IF i > Len(users) THEN 0
  ELSE IF users[i].username = username /\ users[i].password = password
  THEN i
  ELSE FindFrom(users, i + 1, username, password)

\* a variant that matches on the username alone
Find_UsernameOnly(users, username, password) ==
  IF \E i \in 1..Len(users) : users[i].username = username
  THEN CHOOSE i \in 1..Len(users) : users[i].username = username
  ELSE 0

Find(users, username, password) == FindFrom(users, 1, username, password)

\* a variant that copies the whole record
RbacPayload_WholeRecord(user) == user

\* the payload the RBAC variant builds from the matched record
RbacPayload(user) ==
  [username |-> user.username, role |-> user.role, name |-> user.name]

\* the payload the single-user variant builds from DEMO_USER
SinglePayload ==
  [username |-> DEMO_USER.username, name |-> DEMO_USER.name,
   email |-> DEMO_USER.email]

\* a variant that tells an unknown username from a wrong password
RbacLogin_Enumerating(username, password, t) ==
  IF Falsy(username) \/ Falsy(password)
  THEN Fail(400, MsgRequired("rbac"))
  ELSE LET i == Find(DEMO_USERS, username, password)
       IN  IF i = 0
           THEN IF \E j \in 1..Len(DEMO_USERS) :
                     DEMO_USERS[j].username = username
                THEN Fail(401, "Wrong password")
                ELSE Fail(401, "Unknown user")
           ELSE Response(200, "", "",
                         signToken("rbac", RbacPayload(DEMO_USERS[i]), t),
                         JWT_EXPIRES_IN("rbac"), "",
                         RbacPayload(DEMO_USERS[i]))

RbacLogin(username, password, t) ==
  IF Falsy(username) \/ Falsy(password)
  THEN Fail(400, MsgRequired("rbac"))
  ELSE LET i == Find(DEMO_USERS, username, password)
       IN  IF i = 0 THEN Fail(401, MsgInvalidLogin)
           ELSE Response(200, "", "",
                         signToken("rbac", RbacPayload(DEMO_USERS[i]), t),
                         JWT_EXPIRES_IN("rbac"), "",
                         RbacPayload(DEMO_USERS[i]))

SingleLogin(username, password, t) ==
  IF Falsy(username) \/ Falsy(password)
  THEN Fail(400, MsgRequired("single"))
  ELSE IF username # DEMO_USER.username \/ password # DEMO_USER.password
  THEN Fail(401, MsgInvalidLogin)
  ELSE Response(200, "", "", signToken("single", SinglePayload, t),
                JWT_EXPIRES_IN("single"), "", NoUser)

Login(v, username, password, t) ==
  IF v = "rbac" THEN RbacLogin(username, password, t)
  ELSE SingleLogin(username, password, t)

(* --------------------------- protected routes --------------------------- *)
\* a route made of verifyJwt and a handler that always answers 200
Authenticated(header, token, t, message) ==
  LET v == verifyJwt(header, token, t)
  IN  IF v.res # Next0 THEN v
      ELSE [res |-> Ok(message, v.user), user |-> v.user,
            ran |-> v.ran \cup {"handler"}]

\* a route made of verifyJwt, authorizeRoles(...allowedRoles) and a handler
RoleGated(header, token, t, allowedRoles, message) ==
  LET v == verifyJwt(header, token, t)
  IN  IF v.res # Next0 THEN v
      ELSE LET g == authorizeRoles(allowedRoles, v.user)
           IN  IF g # Next0
               THEN [res |-> g, user |-> v.user,
                     ran |-> v.ran \cup {"authorizeRoles"}]
               ELSE [res |-> Ok(message, v.user), user |-> v.user,
                     ran |-> v.ran \cup {"authorizeRoles", "handler"}]

RbacProfile(header, token, t) ==
  Authenticated(header, token, t, "Profile data")

Moderator(header, token, t) ==
  RoleGated(header, token, t, <<"moderator", "admin">>, "Moderator dashboard")

Admin(header, token, t) ==
  RoleGated(header, token, t, <<"admin">>, "Admin dashboard")

\* req.user?.role
OptRole(user) ==
  IF user = NoUser \/ "role" \notin DOMAIN user THEN Undefined ELSE user.role

\* a variant whose inline list lacks the moderator
ModerationAction_AdminOnly(header, token, t) ==
  LET v == verifyJwt(header, token, t)
      allowed == <<"admin">>
  IN  IF v.res # Next0 THEN v
      ELSE IF ~Includes(allowed, OptRole(v.user))
      THEN [res |-> Fail(403, MsgNotAllowed), user |-> v.user,
            ran |-> v.ran \cup {"handler"}]
      ELSE [res |-> Ok("Action performed", v.user), user |-> v.user,
            ran |-> v.ran \cup {"handler"}]

\* the inline check of POST /moderation/action
ModerationAction(header, token, t) ==
  LET v == verifyJwt(header, token, t)
      allowed == <<"moderator", "admin">>
  IN  IF v.res # Next0 THEN v
      ELSE IF ~Includes(allowed, OptRole(v.user))
      THEN [res |-> Fail(403, MsgNotAllowed), user |-> v.user,
            ran |-> v.ran \cup {"handler"}]
      ELSE [res |-> Ok("Action performed", v.user), user |-> v.user,
            ran |-> v.ran \cup {"handler"}]

Protected(header, token, t) ==
  Authenticated(header, token, t, "You accessed a protected resource")

\* req.user.email of a payload that may lack the field
Field(user, f) == IF f \in DOMAIN user THEN user[f] ELSE Undefined

SingleProfile(header, token, t) ==
  LET v == verifyJwt(header, token, t)
  IN  IF v.res # Next0 THEN v
      ELSE [res |-> Ok("", [username |-> Field(v.user, "username"),
                            name |-> Field(v.user, "name"),
                            email |-> Field(v.user, "email"),
                            joined |-> "2024-01-01"]),
            user |-> v.user, ran |-> v.ran \cup {"handler"}]

(* ------------------------------- inputs -------------------------------- *)
Usernames == {Undefined, "", "admin1", "mod1", "alice", "demo", "nobody"}
Passwords == {Undefined, "", "adminpass", "modpass", "alicepw", "secret123",
              "wrong"}

Chunks == {SP, "Bearer", "Basic", TOK}

RECURSIVE SeqsUpTo(_, _)
SeqsUpTo(S, n) ==
  IF n = 0 THEN {<<>>}
  ELSE LET shorter == SeqsUpTo(S, n - 1)
       IN  shorter \cup {Append(q, c) : q \in shorter, c \in S}

\* a chunk other than SP is a whole run of non-space characters: two of
\* them are never adjacent
Runs(h) == \A i \in 1..(Len(h) - 1) : h[i] = SP \/ h[i + 1] = SP

Headers ==
  {NoHeader} \cup
    {HeaderOf(h) : h \in {q \in SeqsUpTo(Chunks, MaxHeaderLen) : Runs(q)}}


CarriesToken(header) ==
  header.present /\ \E i \in 1..Len(header.value) : header.value[i] = TOK

\* a token whose payload was altered after signing
Tamper(token) ==
  IF "role" \in DOMAIN token.body /\ token.body.role # "admin"
  THEN [token EXCEPT !.body.role = "admin"]
  ELSE [token EXCEPT !.body.username = "root"]

\* the tokens a client may present at time t: the issued ones, altered
\* copies of them, a token signed with another key, and a token of the
\* sibling server, which signs with the same default JWT_SECRET
Presentable(v, t) ==
  issued
    \cup {Tamper(tk) : tk \in issued}
    \cup {JwtSign(RbacPayload(DEMO_USERS[1]), OtherSecret, "2h", t)}
    \cup {IF v = "rbac" THEN signToken("single", SinglePayload, t)
          ELSE signToken("rbac", RbacPayload(DEMO_USERS[1]), t)}

\* the tokens a request with this header may carry
TokensFor(header) ==
  IF CarriesToken(header) THEN Presentable(variant, now) ELSE {NoToken}

NoRequest ==
  [method |-> "", path |-> "", username |-> Undefined,
   password |-> Undefined, header |-> NoHeader, token |-> NoToken,
   user |-> NoUser, time |-> 0]

Request(method, path, username, password, header, token, user) ==
  [method |-> method, path |-> path, username |-> username,
   password |-> password, header |-> header, token |-> token,
   user |-> user, time |-> now]

(* ------------------------------- actions ------------------------------- *)
\* history: the responses given to failed logins with both fields present,
\* each with whether the username was one of the list
UsernameExists(v, username) ==
  IF v = "rbac" THEN \E i \in 1..Len(DEMO_USERS) :
                        DEMO_USERS[i].username = username
  ELSE username = DEMO_USER.username

ServerInit ==
  /\ now = 0
  /\ issued = {}
  /\ req = NoRequest
  /\ res = Next0
  /\ ran = {}
  /\ loginFailures = {}

FormIdle ==
  /\ formData = [username |-> "", password |-> ""]
  /\ error = ""
  /\ pendingFormData = <<>>
  /\ pendingError = <<>>
  /\ alerts = <<>>
  /\ typed = [username |-> "", password |-> ""]
  /\ lastEvent = "mount"

Init ==
  /\ variant \in {"rbac", "single"}
  /\ ServerInit
  /\ FormIdle

\* the server handles one request at a time
Idle == req = NoRequest

\* the clock advances
Tick ==
  /\ now < MaxTime
  /\ now' = now + 1
  /\ UNCHANGED <<variant, issued, req, res, ran, loginFailures>>
  /\ UNCHANGED formVars

\* the response has been sent: req and res are dropped
Discard ==
  /\ ~Idle
  /\ req' = NoRequest
  /\ res' = Next0
  /\ ran' = {}
  /\ UNCHANGED <<variant, now, issued, loginFailures>>
  /\ UNCHANGED formVars

GetRoot ==
  /\ Idle
  /\ req' = Request("GET", "/", Undefined, Undefined, NoHeader, NoToken,
                    NoUser)
  /\ res' = Ok(IF variant = "rbac"
               THEN "RBAC demo. POST /login to get a token."
               ELSE "JWT protected routes demo. POST /login to get a token.",
               NoUser)
  /\ ran' = {"handler"}
  /\ UNCHANGED <<variant, now, issued, loginFailures>>
  /\ UNCHANGED formVars

\* POST /login: the request, the response and the token handed out
LoginStep ==
  /\ Idle
  /\ \E username \in Usernames, password \in Passwords :
       LET r == Login(variant, username, password, now)
       IN  /\ r.token # NoToken =>
                r.token \in issued \/ Cardinality(issued) < MaxIssued
           /\ req' = Request("POST", "/login", username, password, NoHeader,
                             NoToken, NoUser)
           /\ res' = r
           /\ ran' = {"handler"}
           /\ issued' = IF r.token # NoToken THEN issued \cup {r.token}
                        ELSE issued
  /\ UNCHANGED <<variant, now>>
  /\ UNCHANGED formVars

PostLogin == LoginStep /\ UNCHANGED loginFailures

\* POST /login, with the history of failed logins kept
ObservedLogin ==
  /\ LoginStep
  /\ loginFailures' =
       IF res'.token = NoToken /\ ~Falsy(req'.username)
          /\ ~Falsy(req'.password)
       THEN loginFailures \cup
              {[userExists |-> UsernameExists(variant, req'.username),
                res |-> res']}
       ELSE loginFailures

\* a route that starts with verifyJwt has answered: r is what the route made
\* of the header and the token
Served(method, path, header, token, r) ==
  /\ req' = Request(method, path, Undefined, Undefined, header, token, r.user)
  /\ res' = r.res
  /\ ran' = r.ran
  /\ UNCHANGED <<variant, now, issued, loginFailures>>
  /\ UNCHANGED formVars

GetRbacProfile ==
  /\ Idle
  /\ variant = "rbac"
  /\ \E header \in Headers : \E token \in TokensFor(header) :
       Served("GET", "/profile", header, token,
              RbacProfile(header, token, now))

GetModerator ==
  /\ Idle
  /\ variant = "rbac"
  /\ \E header \in Headers : \E token \in TokensFor(header) :
       Served("GET", "/moderator", header, token,
              Moderator(header, token, now))

GetAdmin ==
  /\ Idle
  /\ variant = "rbac"
  /\ \E header \in Headers : \E token \in TokensFor(header) :
       Served("GET", "/admin", header, token, Admin(header, token, now))

PostModerationAction ==
  /\ Idle
  /\ variant = "rbac"
  /\ \E header \in Headers : \E token \in TokensFor(header) :
       Served("POST", "/moderation/action", header, token,
              ModerationAction(header, token, now))

GetProtected ==
  /\ Idle
  /\ variant = "single"
  /\ \E header \in Headers : \E token \in TokensFor(header) :
       Served("GET", "/protected", header, token,
              Protected(header, token, now))

GetSingleProfile ==
  /\ Idle
  /\ variant = "single"
  /\ \E header \in Headers : \E token \in TokensFor(header) :
       Served("GET", "/profile", header, token,
              SingleProfile(header, token, now))

\* app.use((req, res) => res.status(404)...)
Fallback ==
  /\ Idle
  /\ req' = Request("GET", "/nowhere", Undefined, Undefined, NoHeader,
                    NoToken, NoUser)
  /\ res' = Fail(404, MsgNotFound)
  /\ ran' = {"fallback"}
  /\ UNCHANGED <<variant, now, issued, loginFailures>>
  /\ UNCHANGED formVars

Next ==
  \/ Tick
  \/ Discard
  \/ GetRoot
  \/ PostLogin
  \/ GetRbacProfile
  \/ GetModerator
  \/ GetAdmin
  \/ PostModerationAction
  \/ GetProtected
  \/ GetSingleProfile
  \/ Fallback

Spec == Init /\ [][Next]_vars

\* the login endpoint alone, observed
LoginNext ==
  \/ Tick
  \/ Discard
  \/ ObservedLogin

LoginSpec == Init /\ [][LoginNext]_vars

(* ----------------------------- the login form --------------------------- *)
\* formData and error are the values of the current render, the ones the
\* closures handleChange and handleSubmit read; pendingFormData and
\* pendingError are the values passed to setFormData and setError since that
\* render, which React applies, in order, when it renders again.
FieldNames == {"username", "password"}
FieldValues == {"", "a", "b"}

\* the text of the warning (the source puts a warning sign before it)
Warning == "Both fields are required!"
AlertText(username) == <<"Logged in as: ", username>>

\* the object handleChange passes to setFormData
handleChange(fd, name, value) == [fd EXCEPT ![name] = value]

\* a variant that warns only when both fields are empty
handleSubmit_BothEmpty(fd) ==
  IF fd.username = "" /\ fd.password = ""
  THEN [error |-> Warning, alerts |-> <<>>]
  ELSE [error |-> "", alerts |-> <<AlertText(fd.username)>>]

\* what handleSubmit does with the formData it reads: the value it passes to
\* setError and the alerts it shows
handleSubmit(fd) ==
  IF fd.username = "" \/ fd.password = ""
  THEN [error |-> Warning, alerts |-> <<>>]
  ELSE [error |-> "", alerts |-> <<AlertText(fd.username)>>]

FormInit ==
  /\ variant = "rbac"
  /\ ServerInit
  /\ FormIdle

\* an input fires onChange; typed keeps the value of the latest change event
\* of each field
Change ==
  /\ Len(pendingFormData) < MaxPending
  /\ \E name \in FieldNames, value \in FieldValues :
       /\ pendingFormData' =
            Append(pendingFormData, handleChange(formData, name, value))
       /\ typed' = [typed EXCEPT ![name] = value]
  /\ lastEvent' = "change"
  /\ UNCHANGED <<formData, error, pendingError, alerts>>
  /\ UNCHANGED serverVars

\* the form fires onSubmit
Submit ==
  LET out == handleSubmit(formData)
  IN  /\ Len(pendingError) < MaxPending
      /\ Len(alerts) + Len(out.alerts) <= MaxAlerts
      /\ pendingError' = Append(pendingError, out.error)
      /\ alerts' = alerts \o out.alerts
      /\ lastEvent' = "submit"
      /\ UNCHANGED <<formData, error, pendingFormData, typed>>
      /\ UNCHANGED serverVars

\* React renders again: each state takes the last value set
Render ==
  /\ pendingFormData # <<>> \/ pendingError # <<>>
  /\ formData' = IF pendingFormData = <<>> THEN formData
                 ELSE pendingFormData[Len(pendingFormData)]
  /\ error' = IF pendingError = <<>> THEN error
              ELSE pendingError[Len(pendingError)]
  /\ pendingFormData' = <<>>
  /\ pendingError' = <<>>
  /\ lastEvent' = "render"
  /\ UNCHANGED <<alerts, typed>>
  /\ UNCHANGED serverVars

FormNext ==
  \/ Change
  \/ Submit
  \/ Render

FormSpec == FormInit /\ [][FormNext]_vars

(* ------------------------------- claims -------------------------------- *)
TypeOK == res.status \in {0, 200, 400, 401, 403, 404}

\* the header "Bearer <token>" carrying req.token
BearerToken == HeaderOf(<<"Bearer", SP, TOK>>)

ProtectedPaths ==
  {"/profile", "/protected", "/moderator", "/admin", "/moderation/action"}
OnProtected == req.path \in ProtectedPaths
OnRoleGated ==
  variant = "rbac" /\ req.path \in {"/moderator", "/admin", "/moderation/action"}
OnLogin == req.path = "/login"

\* the (username, password) pairs of the fixed credential list
CredentialList ==
  IF variant = "rbac"
  THEN {<<DEMO_USERS[i].username, DEMO_USERS[i].password>> :
          i \in 1..Len(DEMO_USERS)}
  ELSE {<<DEMO_USER.username, DEMO_USER.password>>}

InList == <<req.username, req.password>> \in CredentialList

\* the record of the list with the username of the request
RecordOf(username) ==
  IF variant = "rbac"
  THEN DEMO_USERS[CHOOSE i \in 1..Len(DEMO_USERS) :
                    DEMO_USERS[i].username = username]
  ELSE DEMO_USER

AllowList ==
  IF variant = "rbac" THEN {"username", "role", "name"}
  ELSE {"username", "name", "email"}

\* the request presents, well formed, a token whose signature was made with
\* the server's key and whose expiry lies ahead
PresentsValid ==
  /\ req.header = BearerToken
  /\ req.token.sig = Sign(req.token.body, JWT_SECRET)
  /\ req.time < req.token.body.exp

PresentsIssued ==
  /\ req.header = BearerToken
  /\ req.token \in issued
  /\ req.time < req.token.body.exp

RoleOfToken ==
  IF "role" \in DOMAIN req.token.body THEN req.token.body.role ELSE Undefined

\* C1: in the RBAC variant a valid token issued by POST /login gets, on
\* GET /moderator and GET /admin: 403 on both with role user, 200 on both
\* with role admin, 200 on /moderator and 403 on /admin with role moderator
C1_RoleOutcomes ==
  (variant = "rbac" /\ req.path \in {"/moderator", "/admin"} /\ PresentsIssued)
    => res.status =
         CASE req.token.body.role = "user" -> 403
           [] req.token.body.role = "admin" -> 200
           [] req.token.body.role = "moderator" ->
                IF req.path = "/moderator" THEN 200 ELSE 403

C1_Witness ==
  /\ variant = "rbac" /\ req.path = "/admin" /\ PresentsIssued
  /\ req.token.body.role = "moderator"
  /\ res.status = 403

\* C2 as written: every pair of the request body that is not in the
\* credential list gets 401 from POST /login and no token
C2_Original ==
  (OnLogin /\ ~InList) => (res.status = 401 /\ res.token = NoToken)

\* C2 as amended: a pair that is not in the credential list never gets a
\* token; it gets 401 when both fields are present and non-empty, and 400
\* when a field is absent or empty
C2_Amended ==
  (OnLogin /\ ~InList) =>
     /\ res.token = NoToken
     /\ res.status = IF Falsy(req.username) \/ Falsy(req.password) THEN 400
                     ELSE 401

C2_Witness ==
  /\ OnLogin /\ ~InList
  /\ req.username = "admin1" /\ req.password = "wrong"
  /\ res.status = 401

\* C3: POST /login with a pair of the credential list answers 200 with a
\* token signed with the secret whose payload holds, of the matched record,
\* exactly the allow-listed fields with the record's values and not the
\* password (next to the iat and exp that signing adds); no other request
\* gets a token
C3_TokenPayload ==
  OnLogin =>
     /\ InList => (res.status = 200 /\ res.token # NoToken)
     /\ res.token # NoToken =>
          /\ InList
          /\ res.token \in issued
          /\ res.token.sig = Sign(res.token.body, JWT_SECRET)
          /\ DOMAIN res.token.body = AllowList \cup {"iat", "exp"}
          /\ "password" \notin DOMAIN res.token.body
          /\ \A f \in AllowList :
               /\ res.token.body[f] = RecordOf(req.username)[f]
               /\ res.token.body[f] # req.password

C3_Witness ==
  /\ OnLogin /\ InList /\ variant = "rbac"
  /\ req.username = "mod1"
  /\ res.status = 200
  /\ res.token.body.role = "moderator"

\* C4: on every protected route a request whose token has a wrong signature
\* or is presented at or after its expiry gets 401, no payload is attached
\* to the request and neither the role gate nor the route handler runs
C4_RejectsUnverified ==
  (/\ OnProtected
   /\ req.header = BearerToken
   /\ \/ req.token.sig # Sign(req.token.body, JWT_SECRET)
      \/ req.time >= req.token.body.exp)
    => /\ res.status = 401
       /\ res.error = MsgInvalidToken
       /\ res.details # ""
       /\ req.user = NoUser
       /\ ran \cap {"authorizeRoles", "handler"} = {}

C4_Witness ==
  /\ OnProtected
  /\ req.header = BearerToken
  /\ req.token \in issued
  /\ req.time >= req.token.body.exp
  /\ res.status = 401

\* the header is the word Bearer, one space, and a part without a space
BearerFormat(h) ==
  /\ h.present
  /\ Len(h.value) >= 2
  /\ h.value[1] = "Bearer"
  /\ h.value[2] = SP
  /\ \A i \in 3..Len(h.value) : h.value[i] # SP

HeaderEmpty(h) == ~h.present \/ h.value = <<>>

\* C5 as written: every header that is not "Bearer <token>", the absent and
\* the empty one included, gets 401 with the message that names the expected
\* format, and nothing is passed to jwt.verify
C5_Original ==
  (OnProtected /\ ~BearerFormat(req.header))
    => /\ res.status = 401
       /\ res.error = MsgMalformedHeader
       /\ "jwt.verify" \notin ran

\* C5 as amended: a header that is not "Bearer <token>" gets 401 and nothing
\* is passed to jwt.verify; the message names the expected format when the
\* header is non-empty, and is "Missing Authorization header" when the header
\* is absent or empty; a header of that format is passed to jwt.verify
C5_Amended ==
  OnProtected =>
     /\ ~BearerFormat(req.header) =>
          /\ res.status = 401
          /\ res.error = IF HeaderEmpty(req.header) THEN MsgMissingHeader
                         ELSE MsgMalformedHeader
          /\ "jwt.verify" \notin ran
          /\ req.user = NoUser
     /\ BearerFormat(req.header) => "jwt.verify" \in ran

C5_Witness ==
  /\ OnProtected
  /\ req.header = HeaderOf(<<"Basic", SP, TOK>>)
  /\ req.token \in issued
  /\ req.time < req.token.body.exp
  /\ res.error = MsgMalformedHeader

\* C6: a submit that reads an empty field passes the warning to setError and
\* shows no alert; a submit that reads two non-empty fields passes "" to
\* setError and shows exactly one alert, with the username it read; the next
\* render shows the last error set
C6_Submit ==
  [][/\ lastEvent' = "submit" =>
          IF formData.username = "" \/ formData.password = ""
          THEN /\ pendingError' = Append(pendingError, Warning)
               /\ alerts' = alerts
          ELSE /\ pendingError' = Append(pendingError, "")
               /\ alerts' = Append(alerts, AlertText(formData.username))
     /\ (lastEvent' = "render" /\ pendingError # <<>>) =>
          error' = pendingError[Len(pendingError)]]_vars

C6_Witness ==
  /\ lastEvent = "submit"
  /\ error = Warning
  /\ pendingError = <<"">>
  /\ formData.username = "b"
  /\ alerts = <<AlertText("b")>>

\* C7: all failed logins with both fields non-empty get the same response,
\* whether the username is one of the list or not
C7_SameFailure ==
  \A a \in loginFailures, b \in loginFailures : a.res = b.res

C7_Witness ==
  /\ \E a \in loginFailures : a.userExists
  /\ \E b \in loginFailures : ~b.userExists

\* C8: in every reachable state every issued token whose expiry lies ahead
\* passes verifyJwt, and a request that presents one in a well-formed header
\* was verified: its payload is attached and the answer is not 401
C8_AcceptedUntilExpiry ==
  /\ \A tk \in issued :
       now < tk.body.exp =>
         /\ verifyJwt(BearerToken, tk, now).res = Next0
         /\ verifyJwt(BearerToken, tk, now).user = tk.body
  /\ (OnProtected /\ PresentsIssued) =>
       /\ "jwt.verify" \in ran
       /\ req.user = req.token.body
       /\ res.status \in {200, 403}

C8_Witness ==
  /\ OnProtected /\ PresentsIssued
  /\ Cardinality(issued) = MaxIssued
  /\ req.time > req.token.body.iat
  /\ res.status = 200

\* C9: on GET /moderator, GET /admin and POST /moderation/action a request
\* without a valid token gets 401; the role gate runs, and 403 is sent, only
\* for a verified token, and 403 only when its role is absent or not allowed
\* on the route; /moderation/action and /moderator admit moderator and admin
C9_GateAfterVerify ==
  OnRoleGated =>
     /\ ~PresentsValid =>
          /\ res.status = 401
          /\ ran \cap {"authorizeRoles", "handler"} = {}
     /\ PresentsValid =>
          /\ req.user = req.token.body
          /\ res.status =
               IF RoleOfToken \in (IF req.path = "/admin" THEN {"admin"}
                                   ELSE {"moderator", "admin"})
               THEN 200 ELSE 403

C9_Witness ==
  /\ OnRoleGated /\ PresentsValid
  /\ req.path = "/moderation/action"
  /\ RoleOfToken = "moderator"
  /\ res.status = 200

\* C10: once the component has rendered, each field of formData holds the
\* value of the latest change event of that field
C10_LatestChange ==
  pendingFormData = <<>> => formData = typed

====
